---- MODULE Spec2Model ----
(***************************************************************************)
(* Asset tracker: the relational store (six tables) and the handlers that  *)
(* read and write it.  A handler is a sequence of store statements; each   *)
(* statement is one atomic step of the caller that runs the handler.       *)
(*                                                                         *)
(*   Spec      assignment ledger, calls one after another                  *)
(*   SpecFault the same, against a store that may reject any statement     *)
(*   SpecConc  assignment ledger, calls of two callers interleaved         *)
(*   SpecLoc   location ledger, calls one after another                    *)
(*   SpecHist  location history through its remote procedure               *)
(*   SpecRoute route ledger: createRoute and updateRoute                   *)
(*   SpecCreate     createRoute over its optional fields                   *)
(*   SpecRouteHist  route history, the handler called directly             *)
(*   SpecRouteApi   route history through its remote procedure             *)
(*   SpecDash       dashboard over the registry and the routes             *)
(*   SpecDashUse    dashboard over assignments left by overlapping calls   *)
(*   SpecDashRecent dashboard over the location ledger                     *)
(*   SpecReg        registry: creates of two callers with any key          *)
(*   SpecTie        current locations read twice from one store            *)
(*   SpecFleetList  vehicle list over assignments of overlapping calls     *)
(*   SpecPoints     every handler that touches location_points             *)
(*   SpecRefs       references under interleaved assign and record calls   *)
(*                                                                         *)
(* Columns that no handler reads in a condition or computes (names of the  *)
(* entities, make, model, year, coordinates) are left out of the rows.     *)
(***************************************************************************)
EXTENDS Integers, Sequences, FiniteSets, TLC

\* ---------------------------------------------------------------- bounds
MaxEntities == 2        \* serial values handed out per registry table
MaxAssignments == 3     \* rows of vehicle_driver_assignments
MaxPoints == 3          \* rows of location_points
MaxTime == 1            \* readings of the clock: 0..MaxTime
MaxRoutes == 2          \* rows of routes

\* ---------------------------------------------------------------- inputs
Callers == {"c1", "c2"}       \* clients whose calls may overlap
Main == "c1"                  \* the client of the specifications without overlap
Plates == {"ABC-123", "XYZ-789"}
Badges == {"B001", "B002"}
Licenses == {"DL111111", "DL222222"}
EntityIds == 1..MaxEntities

\* A nullable column or an optional input: absent, or one value.
NULL == <<>>
Some(x) == <<x>>

\* An omitted status, or one that is not the default.

VehicleStatusInputs == {NULL, Some("maintenance")}
OfficerStatusInputs == {NULL, Some("on_duty")}
DriverStatusInputs == {NULL, Some("inactive")}

VARIABLES
    officers,       \* security_officers rows, in insertion order
    vehicles,       \* corporate_vehicles rows
    drivers,        \* drivers rows
    assignments,    \* vehicle_driver_assignments rows
    points,         \* location_points rows
    routes,         \* routes rows
    seq,            \* last value of each table's serial id
    now,            \* the clock read by new Date() and defaultNow()
    storeUp,        \* whether the store executes statements or rejects them
    calls,          \* per caller: the handler it runs, its position, its locals
    pre             \* per caller: the tables as they were when its call began

vars == <<officers, vehicles, drivers, assignments, points, routes, seq, now, storeUp, calls,
          pre>>

\* ---------------------------------------------------------------- helpers
Range(s) == {s[i] : i \in 1..Len(s)}

\* input.status || 'active'
OrDefault(opt, dflt) == IF opt = NULL THEN dflt ELSE opt[1]

\* A faulty HasId: the existence check is skipped.
HasIdUnchecked(tbl, id) == TRUE

\* db.select().from(tbl).where(eq(tbl.id, id)) returns a row
HasId(tbl, id) == \E i \in 1..Len(tbl) : tbl[i].id = id

Idle == [op |-> "idle", pc |-> "idle", input |-> NULL, local |-> NULL,
         kind |-> "none", error |-> "none", ret |-> NULL]

NoSnapshot == [assignments |-> <<>>, points |-> <<>>, routes |-> <<>>]
Snapshot == [assignments |-> assignments, points |-> points, routes |-> routes]

\* The call of caller c ends: what it returns or throws stays visible until Return.
Done(c, k, e, r) ==
    calls' = [calls EXCEPT ![c] = [@ EXCEPT !.pc = "done", !.kind = k, !.error = e, !.ret = r]]

\* catch (error) { console.error(...); throw error; } around a rejected statement
Rejected(c, op, input) ==
    calls' = [calls EXCEPT ![c] = [Idle EXCEPT !.op = op, !.input = input, !.pc = "done",
                                               !.kind = "error", !.error = "StoreUnavailable"]]

Begins(c) == calls[c].pc = "idle"

\* ---------------------------------------------------------------- entity registry
VehicleRow(id, plate, status) == [id |-> id, license_plate |-> plate, status |-> status]
OfficerRow(id, badge, status) == [id |-> id, badge_number |-> badge, status |-> status]
DriverRow(id, license, status) == [id |-> id, license_number |-> license, status |-> status]

\* A faulty PlateTaken: the column carries no unique constraint.
PlateNeverTaken(tbl, plate) == FALSE

\* license_plate: text(...).notNull().unique()
PlateTaken(tbl, plate) == \E i \in 1..Len(tbl) : tbl[i].license_plate = plate
BadgeTaken(tbl, badge) == \E i \in 1..Len(tbl) : tbl[i].badge_number = badge
LicenseTaken(tbl, license) == \E i \in 1..Len(tbl) : tbl[i].license_number = license

createCorporateVehicle(c, plate, status) ==
    /\ Begins(c)
    /\ LET input == [license_plate |-> plate, status |-> status]
           id == seq.vehicles + 1
           row == VehicleRow(id, plate, OrDefault(status, "active"))
       IN  IF ~storeUp
           THEN /\ Rejected(c, "createCorporateVehicle", input)
                /\ UNCHANGED <<vehicles, seq>>
           ELSE /\ seq.vehicles < MaxEntities
                /\ seq' = [seq EXCEPT !.vehicles = id]
                /\ IF PlateTaken(vehicles, plate)
                   THEN /\ UNCHANGED vehicles
                        /\ calls' = [calls EXCEPT ![c] =
                              [Idle EXCEPT !.op = "createCorporateVehicle", !.input = input,
                                           !.pc = "done", !.kind = "error",
                                           !.error = "ConstraintViolation"]]
                   ELSE /\ vehicles' = Append(vehicles, row)
                        /\ calls' = [calls EXCEPT ![c] =
                              [Idle EXCEPT !.op = "createCorporateVehicle", !.input = input,
                                           !.pc = "done", !.kind = "ok", !.ret = Some(row)]]
    /\ UNCHANGED <<routes, officers, drivers, assignments, points, now, storeUp>>

createDriver(c, license, status) ==
    /\ Begins(c)
    /\ LET input == [license_number |-> license, status |-> status]
           id == seq.drivers + 1
           row == DriverRow(id, license, OrDefault(status, "active"))
       IN  IF ~storeUp
           THEN /\ Rejected(c, "createDriver", input)
                /\ UNCHANGED <<drivers, seq>>
           ELSE /\ seq.drivers < MaxEntities
                /\ seq' = [seq EXCEPT !.drivers = id]
                /\ IF LicenseTaken(drivers, license)
                   THEN /\ UNCHANGED drivers
                        /\ calls' = [calls EXCEPT ![c] =
                              [Idle EXCEPT !.op = "createDriver", !.input = input,
                                           !.pc = "done", !.kind = "error",
                                           !.error = "ConstraintViolation"]]
                   ELSE /\ drivers' = Append(drivers, row)
                        /\ calls' = [calls EXCEPT ![c] =
                              [Idle EXCEPT !.op = "createDriver", !.input = input,
                                           !.pc = "done", !.kind = "ok", !.ret = Some(row)]]
    /\ UNCHANGED <<routes, officers, vehicles, assignments, points, now, storeUp>>

createSecurityOfficer(c, badge, status) ==
    /\ Begins(c)
    /\ LET input == [badge_number |-> badge, status |-> status]
           id == seq.officers + 1
           row == OfficerRow(id, badge, OrDefault(status, "active"))
       IN  IF ~storeUp
           THEN /\ Rejected(c, "createSecurityOfficer", input)
                /\ UNCHANGED <<officers, seq>>
           ELSE /\ seq.officers < MaxEntities
                /\ seq' = [seq EXCEPT !.officers = id]
                /\ IF BadgeTaken(officers, badge)
                   THEN /\ UNCHANGED officers
                        /\ calls' = [calls EXCEPT ![c] =
                              [Idle EXCEPT !.op = "createSecurityOfficer", !.input = input,
                                           !.pc = "done", !.kind = "error",
                                           !.error = "ConstraintViolation"]]
                   ELSE /\ officers' = Append(officers, row)
                        /\ calls' = [calls EXCEPT ![c] =
                              [Idle EXCEPT !.op = "createSecurityOfficer", !.input = input,
                                           !.pc = "done", !.kind = "ok", !.ret = Some(row)]]
    /\ UNCHANGED <<routes, vehicles, drivers, assignments, points, now, storeUp>>

\* ---------------------------------------------------------------- assignment ledger
AssignmentRow(id, v, d, t) ==
    [id |-> id, vehicle_id |-> v, driver_id |-> d, assigned_at |-> t,
     unassigned_at |-> NULL, status |-> "active"]

\* WHERE vehicle_id = v AND status = 'active'
IsActiveFor(row, v) == row.vehicle_id = v /\ row.status = "active"

\* A faulty ActiveIndexes: the status condition is left out of the WHERE.
IndexesIgnoringStatus(tbl, v) == {i \in 1..Len(tbl) : tbl[i].vehicle_id = v}

\* db.select()...where(and(eq(vehicle_id, v), eq(status, 'active')))
ActiveIndexes(tbl, v) == {i \in 1..Len(tbl) : IsActiveFor(tbl[i], v)}

\* A faulty Deactivated: the UPDATE matches no row.
DeactivatedNothing(tbl, v, t) == tbl

\* A faulty Deactivated: unassigned_at is left out of the SET.
DeactivatedWithoutTimestamp(tbl, v, t) ==
    [i \in 1..Len(tbl) |->
        IF IsActiveFor(tbl[i], v) THEN [tbl[i] EXCEPT !.status = "inactive"] ELSE tbl[i]]

\* UPDATE ... SET status = 'inactive', unassigned_at = t WHERE vehicle_id = v AND status = 'active'
Deactivated(tbl, v, t) ==
    [i \in 1..Len(tbl) |->
        IF IsActiveFor(tbl[i], v)
        THEN [tbl[i] EXCEPT !.status = "inactive", !.unassigned_at = Some(t)]
        ELSE tbl[i]]

\* A faulty DeactivatedById: the WHERE matches earlier rows as well.
DeactivatedByIdAndOlder(tbl, id, t) ==
    [i \in 1..Len(tbl) |->
        IF tbl[i].id <= id
        THEN [tbl[i] EXCEPT !.status = "inactive", !.unassigned_at = Some(t)]
        ELSE tbl[i]]

\* UPDATE ... SET unassigned_at = t, status = 'inactive' WHERE id = id
DeactivatedById(tbl, id, t) ==
    [i \in 1..Len(tbl) |->
        IF tbl[i].id = id
        THEN [tbl[i] EXCEPT !.status = "inactive", !.unassigned_at = Some(t)]
        ELSE tbl[i]]

\* Calls that will still insert an assignment row.
PendingInserts == Cardinality({c \in Callers : calls[c].op = "assignDriverToVehicle"
                                                /\ calls[c].pc # "done"})

\* const [vehicle] = await db.select().from(corporateVehiclesTable).where(id = vehicle_id)
AssignSelectVehicle(c, v, d) ==
    /\ Begins(c)
    /\ Len(assignments) + PendingInserts < MaxAssignments
    /\ LET input == [vehicle_id |-> v, driver_id |-> d]
       IN  IF ~storeUp
           THEN Rejected(c, "assignDriverToVehicle", input)
           ELSE calls' = [calls EXCEPT ![c] =
                   IF HasId(vehicles, v)
                   THEN [Idle EXCEPT !.op = "assignDriverToVehicle", !.input = input,
                                     !.pc = "selectDriver"]
                   ELSE [Idle EXCEPT !.op = "assignDriverToVehicle", !.input = input,
                                     !.pc = "done", !.kind = "error",
                                     !.error = "VehicleNotFound"]]
    /\ UNCHANGED <<routes, officers, vehicles, drivers, assignments, points, seq, now, storeUp>>

\* const [driver] = await db.select().from(driversTable).where(id = driver_id)
AssignSelectDriver(c) ==
    /\ calls[c].op = "assignDriverToVehicle" /\ calls[c].pc = "selectDriver"
    /\ IF ~storeUp
       THEN Done(c, "error", "StoreUnavailable", NULL)
       ELSE IF HasId(drivers, calls[c].input.driver_id)
            THEN calls' = [calls EXCEPT ![c].pc = "deactivate"]
            ELSE Done(c, "error", "DriverNotFound", NULL)
    /\ UNCHANGED <<routes, officers, vehicles, drivers, assignments, points, seq, now, storeUp>>

\* await db.update(vehicleDriverAssignmentsTable).set({status: 'inactive', ...}).where(...)
AssignDeactivate(c) ==
    /\ calls[c].op = "assignDriverToVehicle" /\ calls[c].pc = "deactivate"
    /\ IF ~storeUp
       THEN /\ Done(c, "error", "StoreUnavailable", NULL)
            /\ UNCHANGED assignments
       ELSE /\ assignments' = Deactivated(assignments, calls[c].input.vehicle_id, now)
            /\ calls' = [calls EXCEPT ![c].pc = "insert"]
    /\ UNCHANGED <<routes, officers, vehicles, drivers, points, seq, now, storeUp>>

\* const result = await db.insert(vehicleDriverAssignmentsTable).values({...}).returning()
AssignInsert(c) ==
    /\ calls[c].op = "assignDriverToVehicle" /\ calls[c].pc = "insert"
    /\ IF ~storeUp
       THEN /\ Done(c, "error", "StoreUnavailable", NULL)
            /\ UNCHANGED <<assignments, seq>>
       ELSE LET id == seq.assignments + 1
                row == AssignmentRow(id, calls[c].input.vehicle_id,
                                     calls[c].input.driver_id, now)
            IN  /\ seq' = [seq EXCEPT !.assignments = id]
                /\ assignments' = Append(assignments, row)
                /\ Done(c, "ok", "none", Some(row))
    /\ UNCHANGED <<routes, officers, vehicles, drivers, points, now, storeUp>>

\* const activeAssignments = await db.select()...where(vehicle_id = vehicleId AND status = 'active')
\* The store returns the matching rows in no promised order: activeAssignments[0] is any of them.
UnassignSelect(c, v) ==
    /\ Begins(c)
    /\ LET input == [vehicleId |-> v]
       IN  IF ~storeUp
           THEN Rejected(c, "unassignDriverFromVehicle", input)
           ELSE IF ActiveIndexes(assignments, v) = {}
                THEN calls' = [calls EXCEPT ![c] =
                        [Idle EXCEPT !.op = "unassignDriverFromVehicle", !.input = input,
                                     !.pc = "done", !.kind = "ok", !.ret = NULL]]
                ELSE \E i \in ActiveIndexes(assignments, v) :
                        calls' = [calls EXCEPT ![c] =
                           [Idle EXCEPT !.op = "unassignDriverFromVehicle", !.input = input,
                                        !.pc = "update", !.local = Some(assignments[i].id)]]
    /\ UNCHANGED <<routes, officers, vehicles, drivers, assignments, points, seq, now, storeUp>>

\* const result = await db.update(...).set({...}).where(id = activeAssignment.id).returning()
UnassignUpdate(c) ==
    /\ calls[c].op = "unassignDriverFromVehicle" /\ calls[c].pc = "update"
    /\ IF ~storeUp
       THEN /\ Done(c, "error", "StoreUnavailable", NULL)
            /\ UNCHANGED assignments
       ELSE LET id == calls[c].local[1]
                updated == DeactivatedById(assignments, id, now)
            IN  /\ assignments' = updated
                /\ Done(c, "ok", "none", SelectSeq(updated, LAMBDA r : r.id = id))
    /\ UNCHANGED <<routes, officers, vehicles, drivers, points, seq, now, storeUp>>

\* results.map(result => ({id, vehicle_id, driver_id, assigned_at, unassigned_at, status}))
AssignmentView(r) ==
    [id |-> r.id, vehicle_id |-> r.vehicle_id, driver_id |-> r.driver_id,
     assigned_at |-> r.assigned_at, unassigned_at |-> r.unassigned_at, status |-> r.status]

\* A faulty ListedAssignments: historical rows are filtered out.
ListedActiveOnly(tbl) == SelectSeq(tbl, LAMBDA r : r.status = "active")

\* db.select().from(vehicleDriverAssignmentsTable), every row mapped
ListedAssignments(tbl) == [i \in 1..Len(tbl) |-> AssignmentView(tbl[i])]

getVehicleDriverAssignments(c) ==
    /\ Begins(c)
    /\ IF ~storeUp
       THEN Rejected(c, "getVehicleDriverAssignments", NULL)
       ELSE calls' = [calls EXCEPT ![c] =
               [Idle EXCEPT !.op = "getVehicleDriverAssignments", !.pc = "done", !.kind = "ok",
                            !.ret = ListedAssignments(assignments)]]
    /\ UNCHANGED <<routes, officers, vehicles, drivers, assignments, points, seq, now, storeUp>>

\* ---------------------------------------------------------------- vehicle list
\* corporate_vehicles LEFT JOIN vehicle_driver_assignments ON vehicle_id = id AND
\* status = 'active' AND unassigned_at IS NULL: a pair <<i, j>> for every assignment j
\* that matches vehicle i, and <<i, 0>> for a vehicle that no assignment matches. The
\* second LEFT JOIN, to drivers on their primary key, adds no row.
CurrentAssignments(i) ==
    {j \in 1..Len(assignments) :
        /\ assignments[j].vehicle_id = vehicles[i].id
        /\ assignments[j].status = "active"
        /\ assignments[j].unassigned_at = NULL}

VehiclesJoined ==
    {p \in (1..Len(vehicles)) \X (0..Len(assignments)) :
        IF p[2] = 0 THEN CurrentAssignments(p[1]) = {}
        ELSE p[2] \in CurrentAssignments(p[1])}

\* The query has no ORDER BY: the store returns the joined rows in any order.
RECURSIVE Orderings(_)
Orderings(S) ==
    IF S = {} THEN {<<>>}
    ELSE UNION {{<<x>> \o rest : rest \in Orderings(S \ {x})} : x \in S}

\* results.map(result => ({id, license_plate, ..., status, ...}))
VehicleView(p) == vehicles[p[1]]

getCorporateVehicles(c) ==
    /\ Begins(c)
    /\ IF ~storeUp
       THEN Rejected(c, "getCorporateVehicles", NULL)
       ELSE \E rows \in Orderings(VehiclesJoined) :
               calls' = [calls EXCEPT ![c] =
                  [Idle EXCEPT !.op = "getCorporateVehicles", !.pc = "done", !.kind = "ok",
                               !.ret = [k \in 1..Len(rows) |-> VehicleView(rows[k])]]]
    /\ UNCHANGED <<routes, officers, vehicles, drivers, assignments, points, seq, now, storeUp>>

\* ---------------------------------------------------------------- location ledger
PointRow(id, type, eid, t) ==
    [id |-> id, entity_type |-> type, entity_id |-> eid, timestamp |-> t]

EntityTypes == {"security_officer", "corporate_vehicle"}

\* Timestamps a caller may send: omitted, or the instant of the event it reports,
\* which need not be the time of the call.
TimestampInputs == {NULL, Some(0), Some(1)}

\* A faulty EntityTable: the two branches select from each other's table.
EntityTableOther(type) == IF type = "security_officer" THEN vehicles ELSE officers

\* if (entity_type === 'security_officer') select from securityOfficersTable
\* else if (entity_type === 'corporate_vehicle') select from corporateVehiclesTable
EntityTable(type) == IF type = "security_officer" THEN officers ELSE vehicles

NotFoundError(type) ==
    IF type = "security_officer" THEN "OfficerNotFound" ELSE "VehicleNotFound"

\* Calls that will still insert a location point.
PendingPoints == Cardinality({c \in Callers : calls[c].op = "recordLocationPoint"
                                               /\ calls[c].pc # "done"})

\* const officer = await db.select().from(table).where(eq(table.id, entity_id)).limit(1)
RecordSelectEntity(c, type, eid, t) ==
    /\ Begins(c)
    /\ Len(points) + PendingPoints < MaxPoints
    /\ LET input == [entity_type |-> type, entity_id |-> eid, timestamp |-> t]
       IN  IF ~storeUp
           THEN Rejected(c, "recordLocationPoint", input)
           ELSE calls' = [calls EXCEPT ![c] =
                   IF HasId(EntityTable(type), eid)
                   THEN [Idle EXCEPT !.op = "recordLocationPoint", !.input = input,
                                     !.pc = "insert"]
                   ELSE [Idle EXCEPT !.op = "recordLocationPoint", !.input = input,
                                     !.pc = "done", !.kind = "error",
                                     !.error = NotFoundError(type)]]
    /\ UNCHANGED <<routes, officers, vehicles, drivers, assignments, points, seq, now, storeUp>>

\* A faulty Inserted: the latest point of the table is replaced by the new one.
InsertedOverLatest(tbl, row) ==
    IF tbl = <<>> THEN <<row>> ELSE [tbl EXCEPT ![Len(tbl)] = row]

\* db.insert(locationPointsTable).values({...}): one new row, the others as they were
Inserted(tbl, row) == Append(tbl, row)

\* const timestamp = input.timestamp || new Date(); db.insert(locationPointsTable)...returning()
RecordInsert(c) ==
    /\ calls[c].op = "recordLocationPoint" /\ calls[c].pc = "insert"
    /\ IF ~storeUp
       THEN /\ Done(c, "error", "StoreUnavailable", NULL)
            /\ UNCHANGED <<points, seq>>
       ELSE LET id == seq.points + 1
                row == PointRow(id, calls[c].input.entity_type, calls[c].input.entity_id,
                                OrDefault(calls[c].input.timestamp, now))
            IN  /\ seq' = [seq EXCEPT !.points = id]
                /\ points' = Inserted(points, row)
                /\ Done(c, "ok", "none", Some(row))
    /\ UNCHANGED <<routes, officers, vehicles, drivers, assignments, now, storeUp>>

\* A faulty JoinedPoints: the entity_type condition is left out of the WHERE.
JoinedIgnoringType(parent, type, status) ==
    {i \in 1..Len(points) :
        \E r \in Range(parent) : r.id = points[i].entity_id /\ r.status = status}

\* location_points INNER JOIN parent ON entity_id = parent.id
\* WHERE entity_type = type AND parent.status = status
JoinedPoints(parent, type, status) ==
    {i \in 1..Len(points) :
        /\ points[i].entity_type = type
        /\ \E r \in Range(parent) : r.id = points[i].entity_id /\ r.status = status}

\* ORDER BY entity_id, timestamp DESC
OrderedBefore(a, b) ==
    \/ a.entity_id < b.entity_id
    \/ a.entity_id = b.entity_id /\ a.timestamp >= b.timestamp

RECURSIVE Arrangements(_)
Arrangements(S) ==
    IF S = {} THEN {<<>>}
    ELSE UNION {{<<points[i]>> \o rest : rest \in Arrangements(S \ {i})} : i \in S}

\* The orders in which the store may return the joined rows: sorted on the ORDER BY
\* columns, rows equal on them in any order.
QueryResults(S) ==
    {r \in Arrangements(S) : \A i \in 1..(Len(r) - 1) : OrderedBefore(r[i], r[i + 1])}

\* const key = `${location.entity_type}-${location.entity_id}`
SameKey(a, b) == a.entity_type = b.entity_type /\ a.entity_id = b.entity_id

\* A faulty Newer: the comparison is reversed.
Older(a, b) == a.timestamp < b.timestamp

\* new Date(location.timestamp) > new Date(existing.timestamp)
Newer(a, b) == a.timestamp > b.timestamp

\* if (!existing || newer) latestLocationMap.set(key, location): a Map keeps a key at
\* the position of its first insertion.
MapSet(map, location) ==
    IF \E j \in 1..Len(map) : SameKey(map[j], location)
    THEN [j \in 1..Len(map) |->
            IF SameKey(map[j], location) /\ Newer(location, map[j]) THEN location ELSE map[j]]
    ELSE Append(map, location)

\* allLocations.forEach(...); Array.from(latestLocationMap.values())
RECURSIVE LatestLocations(_, _)
LatestLocations(all, map) ==
    IF all = <<>> THEN map ELSE LatestLocations(Tail(all), MapSet(map, Head(all)))

\* const securityOfficerLocations = await db.select()...innerJoin(securityOfficersTable)...
CurrentSelectOfficers(c) ==
    /\ Begins(c)
    /\ IF ~storeUp
       THEN Rejected(c, "getCurrentLocations", NULL)
       ELSE \E rows \in QueryResults(JoinedPoints(officers, "security_officer", "on_duty")) :
               calls' = [calls EXCEPT ![c] =
                  [Idle EXCEPT !.op = "getCurrentLocations", !.pc = "selectVehicles",
                               !.local = rows]]
    /\ UNCHANGED <<routes, officers, vehicles, drivers, assignments, points, seq, now, storeUp>>

\* const vehicleLocations = await db.select()...innerJoin(corporateVehiclesTable)...;
\* then the grouping in memory and the return.
CurrentSelectVehicles(c) ==
    /\ calls[c].op = "getCurrentLocations" /\ calls[c].pc = "selectVehicles"
    /\ IF ~storeUp
       THEN Done(c, "error", "StoreUnavailable", NULL)
       ELSE \E rows \in QueryResults(JoinedPoints(vehicles, "corporate_vehicle", "active")) :
               Done(c, "ok", "none", LatestLocations(calls[c].local \o rows, <<>>))
    /\ UNCHANGED <<routes, officers, vehicles, drivers, assignments, points, seq, now, storeUp>>

\* ---------------------------------------------------------------- location history
\* limit: z.number().int().min(1).max(1000).optional(); const limit = input.limit ?? 100
LimitMin == 1
LimitMax == 1000
DefaultLimit == 100

\* Limits a caller may send: omitted, inside the schema's range, below it, above it.
LimitInputs == {NULL, Some(0), Some(1), Some(2), Some(1001)}

\* start_date and end_date: omitted, or an instant; the pairs cover one bound alone,
\* both bounds around a recorded instant, and an empty range.
StartInputs == {NULL, Some(1)}
EndInputs == {NULL, Some(0), Some(1)}

\* A faulty ValidHistoryInput: the range of limit is not checked.
AnyHistoryInput(input) == TRUE

\* getLocationHistoryInputSchema.parse(input) accepts the input
ValidHistoryInput(input) ==
    input.limit = NULL \/ (input.limit[1] >= LimitMin /\ input.limit[1] <= LimitMax)

\* A faulty MatchesHistory: the bounds are compared with gt and lt.
MatchesHistoryExclusive(p, input) ==
    /\ p.entity_type = input.entity_type
    /\ p.entity_id = input.entity_id
    /\ input.start_date # NULL => p.timestamp > input.start_date[1]
    /\ input.end_date # NULL => p.timestamp < input.end_date[1]

\* conditions: eq(entity_type), eq(entity_id), gte(timestamp, start_date) if given,
\* lte(timestamp, end_date) if given
MatchesHistory(p, input) ==
    /\ p.entity_type = input.entity_type
    /\ p.entity_id = input.entity_id
    /\ input.start_date # NULL => p.timestamp >= input.start_date[1]
    /\ input.end_date # NULL => p.timestamp <= input.end_date[1]

\* .orderBy(desc(timestamp)): rows of equal timestamp in any order
HistoryResults(S) ==
    {r \in Arrangements(S) : \A i \in 1..(Len(r) - 1) : r[i].timestamp >= r[i + 1].timestamp}

\* .limit(n)
Limited(rows, n) == SubSeq(rows, 1, IF n < Len(rows) THEN n ELSE Len(rows))

\* The handler: one SELECT with the conditions, the order and the limit.
getLocationHistory(c, input) ==
    /\ Begins(c)
    /\ IF ~storeUp
       THEN Rejected(c, "getLocationHistory", input)
       ELSE \E rows \in HistoryResults({i \in 1..Len(points) : MatchesHistory(points[i], input)}) :
               calls' = [calls EXCEPT ![c] =
                  [Idle EXCEPT !.op = "getLocationHistory", !.input = input, !.pc = "done",
                               !.kind = "ok",
                               !.ret = Limited(rows, OrDefault(input.limit, DefaultLimit))]]
    /\ UNCHANGED <<routes, officers, vehicles, drivers, assignments, points, seq, now, storeUp>>

\* publicProcedure.input(getLocationHistoryInputSchema).query(({ input }) => handler(input)):
\* an input the schema refuses never reaches the handler.
getLocationHistoryProcedure(c, input) ==
    IF ValidHistoryInput(input)
    THEN getLocationHistory(c, input)
    ELSE /\ Begins(c)
         /\ calls' = [calls EXCEPT ![c] =
               [Idle EXCEPT !.op = "getLocationHistory", !.input = input, !.pc = "done",
                            !.kind = "error", !.error = "InvalidInput"]]
         /\ UNCHANGED <<routes, officers, vehicles, drivers, assignments, points, seq, now,
                        storeUp>>

\* ---------------------------------------------------------------- route ledger
\* An optional input that may also be null (z...nullable().optional()) is omitted (NULL),
\* null (Some(NULL)) or a value (Some(Some(x))).  Distances are counted in thousandths
\* of a kilometre, the scale of the numeric(8, 3) column, durations in minutes.
RouteRow(id, type, eid, name, start, t) ==
    [id |-> id, entity_type |-> type, entity_id |-> eid, route_name |-> name,
     start_time |-> start, end_time |-> NULL, total_distance |-> NULL,
     total_duration |-> NULL, status |-> "active", created_at |-> t]

\* route_name: input.route_name || null
NameOrNull(opt) ==
    IF opt = NULL THEN NULL
    ELSE IF opt[1] = NULL THEN NULL
    ELSE IF opt[1][1] = "" THEN NULL ELSE opt[1]

\* A faulty NewRoute: the supplied start_time is ignored.
NewRouteStartingNow(id, input, t) ==
    RouteRow(id, input.entity_type, input.entity_id, NameOrNull(input.route_name), t, t)

\* .values({entity_type, entity_id, route_name: input.route_name || null,
\*          start_time: input.start_time || new Date(), end_time: null, ..., status: 'active'})
NewRoute(id, input, t) ==
    RouteRow(id, input.entity_type, input.entity_id, NameOrNull(input.route_name),
             OrDefault(input.start_time, t), t)

\* One INSERT; no statement looks entity_id up in any table.
createRoute(c, input) ==
    /\ Begins(c)
    /\ Len(routes) < MaxRoutes
    /\ IF ~storeUp
       THEN /\ Rejected(c, "createRoute", input)
            /\ UNCHANGED <<routes, seq>>
       ELSE LET id == seq.routes + 1
                row == NewRoute(id, input, now)
            IN  /\ seq' = [seq EXCEPT !.routes = id]
                /\ routes' = Append(routes, row)
                /\ calls' = [calls EXCEPT ![c] =
                      [Idle EXCEPT !.op = "createRoute", !.input = input, !.pc = "done",
                                   !.kind = "ok", !.ret = Some(row)]]
    /\ UNCHANGED <<officers, vehicles, drivers, assignments, points, now, storeUp>>

\* The keys of updateValues that are columns of routesTable.  updated_at, which the
\* handler always adds, is not one of them (db/schema.ts, routesTable): the query
\* builder takes the SET list from the table's columns, so that key adds nothing to it.
SetColumns(input) ==
    {f \in {"route_name", "end_time", "total_distance", "total_duration", "status"} :
        input[f] # NULL}

\* A faulty Patched: if (input.x) instead of if (input.x !== undefined), so that an
\* explicit null is taken as an omitted field.
PatchedUnlessNull(r, input) ==
    [r EXCEPT
        !.route_name = IF input.route_name \in {NULL, Some(NULL)} THEN @
                       ELSE input.route_name[1],
        !.end_time = IF input.end_time \in {NULL, Some(NULL)} THEN @ ELSE input.end_time[1],
        !.total_distance = IF input.total_distance \in {NULL, Some(NULL)} THEN @
                           ELSE input.total_distance[1],
        !.total_duration = IF input.total_duration \in {NULL, Some(NULL)} THEN @
                           ELSE input.total_duration[1],
        !.status = IF input.status = NULL THEN @ ELSE input.status[1]]

\* A faulty Patched: the status of a route that is no longer active is kept.
PatchedWhileActive(r, input) ==
    [r EXCEPT
        !.route_name = IF input.route_name = NULL THEN @ ELSE input.route_name[1],
        !.end_time = IF input.end_time = NULL THEN @ ELSE input.end_time[1],
        !.total_distance = IF input.total_distance = NULL THEN @ ELSE input.total_distance[1],
        !.total_duration = IF input.total_duration = NULL THEN @ ELSE input.total_duration[1],
        !.status = IF input.status = NULL \/ r.status # "active" THEN @ ELSE input.status[1]]

\* if (input.x !== undefined) updateValues.x = input.x, for each of the five fields
Patched(r, input) ==
    [r EXCEPT
        !.route_name = IF input.route_name = NULL THEN @ ELSE input.route_name[1],
        !.end_time = IF input.end_time = NULL THEN @ ELSE input.end_time[1],
        !.total_distance = IF input.total_distance = NULL THEN @ ELSE input.total_distance[1],
        !.total_duration = IF input.total_duration = NULL THEN @ ELSE input.total_duration[1],
        !.status = IF input.status = NULL THEN @ ELSE input.status[1]]

\* db.update(routesTable).set(updateValues).where(eq(routesTable.id, input.id)).returning();
\* if (result.length === 0) throw new Error(`Route with id ... not found`).
\* An UPDATE whose SET list is empty is not a statement the store accepts.
updateRoute(c, input) ==
    /\ Begins(c)
    /\ IF ~storeUp
       THEN /\ Rejected(c, "updateRoute", input)
            /\ UNCHANGED routes
       ELSE IF SetColumns(input) = {}
       THEN /\ UNCHANGED routes
            /\ calls' = [calls EXCEPT ![c] =
                  [Idle EXCEPT !.op = "updateRoute", !.input = input, !.pc = "done",
                               !.kind = "error", !.error = "InvalidStatement"]]
       ELSE IF ~HasId(routes, input.id)
       THEN /\ UNCHANGED routes
            /\ calls' = [calls EXCEPT ![c] =
                  [Idle EXCEPT !.op = "updateRoute", !.input = input, !.pc = "done",
                               !.kind = "error", !.error = "RouteNotFound"]]
       ELSE LET updated == [i \in 1..Len(routes) |->
                               IF routes[i].id = input.id THEN Patched(routes[i], input)
                               ELSE routes[i]]
            IN  /\ routes' = updated
                /\ calls' = [calls EXCEPT ![c] =
                      [Idle EXCEPT !.op = "updateRoute", !.input = input, !.pc = "done",
                                   !.kind = "ok",
                                   !.ret = SelectSeq(updated, LAMBDA r : r.id = input.id)]]
    /\ UNCHANGED <<officers, vehicles, drivers, assignments, points, seq, now, storeUp>>

\* ---------------------------------------------------------------- route history
\* A faulty MatchesFilter: if (input.entity_id) instead of !== undefined, so that the
\* id 0 is taken as an omitted field.
MatchesFilterUnlessZero(r, input) ==
    /\ input.entity_type # NULL => r.entity_type = input.entity_type[1]
    /\ (input.entity_id # NULL /\ input.entity_id # Some(0)) => r.entity_id = input.entity_id[1]
    /\ input.start_date # NULL => r.start_time >= input.start_date[1]
    /\ input.end_date # NULL => r.start_time <= input.end_date[1]
    /\ input.status # NULL => r.status = input.status[1]

\* conditions: eq(entity_type) if given, eq(entity_id) if not undefined,
\* gte(start_time, start_date) if given, lte(start_time, end_date) if given,
\* eq(status) if given; and(...conditions)
MatchesFilter(r, input) ==
    /\ input.entity_type # NULL => r.entity_type = input.entity_type[1]
    /\ input.entity_id # NULL => r.entity_id = input.entity_id[1]
    /\ input.start_date # NULL => r.start_time >= input.start_date[1]
    /\ input.end_date # NULL => r.start_time <= input.end_date[1]
    /\ input.status # NULL => r.status = input.status[1]

RECURSIVE RouteArrangements(_)
RouteArrangements(S) ==
    IF S = {} THEN {<<>>}
    ELSE UNION {{<<routes[i]>> \o rest : rest \in RouteArrangements(S \ {i})} : i \in S}

\* .orderBy(desc(routesTable.start_time)): rows of equal start_time in any order
RouteResults(S) ==
    {r \in RouteArrangements(S) :
        \A i \in 1..(Len(r) - 1) : r[i].start_time >= r[i + 1].start_time}

\* The handler: one SELECT, with no WHERE, one condition or and(...conditions).
getRouteHistory(c, input) ==
    /\ Begins(c)
    /\ IF ~storeUp
       THEN Rejected(c, "getRouteHistory", input)
       ELSE \E rows \in RouteResults({i \in 1..Len(routes) : MatchesFilter(routes[i], input)}) :
               calls' = [calls EXCEPT ![c] =
                  [Idle EXCEPT !.op = "getRouteHistory", !.input = input, !.pc = "done",
                               !.kind = "ok", !.ret = rows]]
    /\ UNCHANGED <<routes, officers, vehicles, drivers, assignments, points, seq, now, storeUp>>

\* getRouteHistoryInputSchema.parse(input) accepts the input: entity_type is the one
\* field that is not .optional()
ValidRouteHistoryInput(input) == input.entity_type # NULL

\* publicProcedure.input(getRouteHistoryInputSchema).query(({ input }) => handler(input))
getRouteHistoryProcedure(c, input) ==
    IF ValidRouteHistoryInput(input)
    THEN getRouteHistory(c, input)
    ELSE /\ Begins(c)
         /\ calls' = [calls EXCEPT ![c] =
               [Idle EXCEPT !.op = "getRouteHistory", !.input = input, !.pc = "done",
                            !.kind = "error", !.error = "InvalidInput"]]
         /\ UNCHANGED <<routes, officers, vehicles, drivers, assignments, points, seq, now,
                        storeUp>>

\* ---------------------------------------------------------------- dashboard
\* The handler runs six statements one after the other and merges their results.
NoCounts ==
    [active_security_officers |-> 0, officers_on_duty |-> 0, active_vehicles |-> 0,
     vehicles_in_use |-> 0, total_active_routes |-> 0]

\* A faulty CountWhere: rows are counted whatever their status.
CountAll(tbl, status) == Len(tbl)

\* select cast(count(*) as int) from tbl where status = ...
CountWhere(tbl, status) == Cardinality({i \in 1..Len(tbl) : tbl[i].status = status})

\* A faulty InUse: the status of the vehicle is left out of the WHERE.
InUseWhateverVehicle ==
    {assignments[i].vehicle_id : i \in {j \in 1..Len(assignments) :
        /\ assignments[j].status = "active"
        /\ assignments[j].unassigned_at = NULL
        /\ \E v \in Range(vehicles) : v.id = assignments[j].vehicle_id}}

\* vehicle_driver_assignments INNER JOIN corporate_vehicles ON vehicle_id = id WHERE
\* assignment.status = 'active' AND unassigned_at IS NULL AND vehicle.status = 'active':
\* the vehicle_id values of the joined rows, for count(distinct vehicle_id)
InUse ==
    {assignments[i].vehicle_id : i \in {j \in 1..Len(assignments) :
        /\ assignments[j].status = "active"
        /\ assignments[j].unassigned_at = NULL
        /\ \E v \in Range(vehicles) :
              v.id = assignments[j].vehicle_id /\ v.status = "active"}}

\* const oneDayAgo = new Date(); oneDayAgo.setDate(oneDayAgo.getDate() - 1): the
\* clock counts days.
OneDayAgo(t) == t - 1

\* .limit(10)
RecentLimit == 10

\* where(gte(locationPointsTable.timestamp, oneDayAgo))
Recent(t) == {i \in 1..Len(points) : points[i].timestamp >= OneDayAgo(t)}

DashboardActiveOfficers(c) ==
    /\ Begins(c)
    /\ IF ~storeUp
       THEN Rejected(c, "getDashboardData", NULL)
       ELSE calls' = [calls EXCEPT ![c] =
               [Idle EXCEPT !.op = "getDashboardData", !.pc = "onDutyOfficers",
                            !.local = [NoCounts EXCEPT !.active_security_officers =
                                          CountWhere(officers, "active")]]]
    /\ UNCHANGED <<routes, officers, vehicles, drivers, assignments, points, seq, now, storeUp>>

DashboardOnDutyOfficers(c) ==
    /\ calls[c].op = "getDashboardData" /\ calls[c].pc = "onDutyOfficers"
    /\ IF ~storeUp
       THEN Done(c, "error", "StoreUnavailable", NULL)
       ELSE calls' = [calls EXCEPT ![c].pc = "activeVehicles",
                                   ![c].local.officers_on_duty = CountWhere(officers, "on_duty")]
    /\ UNCHANGED <<routes, officers, vehicles, drivers, assignments, points, seq, now, storeUp>>

DashboardActiveVehicles(c) ==
    /\ calls[c].op = "getDashboardData" /\ calls[c].pc = "activeVehicles"
    /\ IF ~storeUp
       THEN Done(c, "error", "StoreUnavailable", NULL)
       ELSE calls' = [calls EXCEPT ![c].pc = "vehiclesInUse",
                                   ![c].local.active_vehicles = CountWhere(vehicles, "active")]
    /\ UNCHANGED <<routes, officers, vehicles, drivers, assignments, points, seq, now, storeUp>>

DashboardVehiclesInUse(c) ==
    /\ calls[c].op = "getDashboardData" /\ calls[c].pc = "vehiclesInUse"
    /\ IF ~storeUp
       THEN Done(c, "error", "StoreUnavailable", NULL)
       ELSE calls' = [calls EXCEPT ![c].pc = "activeRoutes",
                                   ![c].local.vehicles_in_use = Cardinality(InUse)]
    /\ UNCHANGED <<routes, officers, vehicles, drivers, assignments, points, seq, now, storeUp>>

DashboardActiveRoutes(c) ==
    /\ calls[c].op = "getDashboardData" /\ calls[c].pc = "activeRoutes"
    /\ IF ~storeUp
       THEN Done(c, "error", "StoreUnavailable", NULL)
       ELSE calls' = [calls EXCEPT ![c].pc = "recentLocationUpdates",
                                   ![c].local.total_active_routes = CountWhere(routes, "active")]
    /\ UNCHANGED <<routes, officers, vehicles, drivers, assignments, points, seq, now, storeUp>>

\* The last statement, and the return of the merged results.
DashboardRecentLocationUpdates(c) ==
    /\ calls[c].op = "getDashboardData" /\ calls[c].pc = "recentLocationUpdates"
    /\ IF ~storeUp
       THEN Done(c, "error", "StoreUnavailable", NULL)
       ELSE \E rows \in HistoryResults(Recent(now)) :
               Done(c, "ok", "none",
                    Some([active_security_officers |-> calls[c].local.active_security_officers,
                          active_vehicles |-> calls[c].local.active_vehicles,
                          total_active_routes |-> calls[c].local.total_active_routes,
                          officers_on_duty |-> calls[c].local.officers_on_duty,
                          vehicles_in_use |-> calls[c].local.vehicles_in_use,
                          recent_location_updates |-> Limited(rows, RecentLimit)]))
    /\ UNCHANGED <<routes, officers, vehicles, drivers, assignments, points, seq, now, storeUp>>

getDashboardData(c) ==
    \/ DashboardActiveOfficers(c)
    \/ DashboardOnDutyOfficers(c)
    \/ DashboardActiveVehicles(c)
    \/ DashboardVehiclesInUse(c)
    \/ DashboardActiveRoutes(c)
    \/ DashboardRecentLocationUpdates(c)

\* ---------------------------------------------------------------- environment
\* The response reaches the client; the caller is free for its next call.
Return(c) ==
    /\ calls[c].pc = "done"
    /\ calls' = [calls EXCEPT ![c] = Idle]
    /\ UNCHANGED <<routes, officers, vehicles, drivers, assignments, points, seq, now, storeUp>>

Tick ==
    /\ now < MaxTime
    /\ now' = now + 1
    /\ UNCHANGED <<routes, officers, vehicles, drivers, assignments, points, seq, storeUp, calls>>

StoreGoesDown ==
    /\ storeUp
    /\ storeUp' = FALSE
    /\ UNCHANGED <<routes, officers, vehicles, drivers, assignments, points, seq, now, calls>>

StoreComesUp ==
    /\ ~storeUp
    /\ storeUp' = TRUE
    /\ UNCHANGED <<routes, officers, vehicles, drivers, assignments, points, seq, now, calls>>

\* ---------------------------------------------------------------- specifications
Init ==
    /\ officers = <<>>
    /\ vehicles = <<>>
    /\ drivers = <<>>
    /\ assignments = <<>>
    /\ points = <<>>
    /\ routes = <<>>
    /\ seq = [officers |-> 0, vehicles |-> 0, drivers |-> 0, assignments |-> 0, points |-> 0,
              routes |-> 0]
    /\ now = 0
    /\ storeUp = TRUE
    /\ calls = [c \in Callers |-> Idle]
    /\ pre = [c \in Callers |-> NoSnapshot]

\* The ledger reads only the ids of vehicles and drivers: its specifications create
\* them with the status omitted and with a key no row holds yet.
FreePlates == {p \in Plates : ~PlateTaken(vehicles, p)}
FreeLicenses == {l \in Licenses : ~LicenseTaken(drivers, l)}

Fleet(c) ==
    \/ \E p \in {q \in FreePlates : q = CHOOSE x \in FreePlates : TRUE} :
          createCorporateVehicle(c, p, NULL)
    \/ \E l \in {q \in FreeLicenses : q = CHOOSE x \in FreeLicenses : TRUE} :
          createDriver(c, l, NULL)

Ledger(c) ==
    \/ \E v \in EntityIds, d \in EntityIds : AssignSelectVehicle(c, v, d)
    \/ AssignSelectDriver(c)
    \/ AssignDeactivate(c)
    \/ AssignInsert(c)
    \/ \E v \in EntityIds : UnassignSelect(c, v)
    \/ UnassignUpdate(c)
    \/ getVehicleDriverAssignments(c)

\* History of a call, for stating what it changed: the tables as they were when the
\* call began, kept until it returns.
Journal(c) ==
    pre' = IF calls[c].pc = "idle" /\ calls'[c].pc # "idle" THEN [pre EXCEPT ![c] = Snapshot]
           ELSE IF calls'[c].pc = "idle" THEN [pre EXCEPT ![c] = NoSnapshot]
           ELSE pre

\* Calls that do not overlap: one caller, one call at a time, a store that answers.
Next ==
    \/ Fleet(Main) /\ Journal(Main)
    \/ Ledger(Main) /\ Journal(Main)
    \/ Return(Main) /\ Journal(Main)
    \/ Tick /\ UNCHANGED pre

Spec == Init /\ [][Next]_vars

\* The same calls against a store that may reject any statement.
NextFault ==
    \/ Fleet(Main) /\ Journal(Main)
    \/ Ledger(Main) /\ Journal(Main)
    \/ Return(Main) /\ Journal(Main)
    \/ Tick /\ UNCHANGED pre
    \/ StoreGoesDown /\ UNCHANGED pre
    \/ StoreComesUp /\ UNCHANGED pre

SpecFault == Init /\ [][NextFault]_vars

\* Calls of different callers overlap: their statements interleave freely.
NextConc ==
    \/ Fleet(Main) /\ UNCHANGED pre
    \/ \E c \in Callers : Ledger(c) /\ UNCHANGED pre
    \/ \E c \in Callers : Return(c) /\ UNCHANGED pre
    \/ Tick /\ UNCHANGED pre

SpecConc == Init /\ [][NextConc]_vars

\* The location ledger reads the ids and the status of officers and vehicles: its
\* specification creates them with either status and with a key no row holds yet.
FreeBadges == {b \in Badges : ~BadgeTaken(officers, b)}

Posts(c) ==
    \/ \E b \in {q \in FreeBadges : q = CHOOSE x \in FreeBadges : TRUE},
          s \in OfficerStatusInputs : createSecurityOfficer(c, b, s)
    \/ \E p \in {q \in FreePlates : q = CHOOSE x \in FreePlates : TRUE},
          s \in VehicleStatusInputs : createCorporateVehicle(c, p, s)

Location(c) ==
    \/ \E type \in EntityTypes, eid \in EntityIds, t \in TimestampInputs :
          RecordSelectEntity(c, type, eid, t)
    \/ RecordInsert(c)
    \/ CurrentSelectOfficers(c)
    \/ CurrentSelectVehicles(c)

\* Location calls that do not overlap, against a store that answers.
NextLoc ==
    \/ Posts(Main) /\ Journal(Main)
    \/ Location(Main) /\ Journal(Main)
    \/ Return(Main) /\ Journal(Main)

SpecLoc == Init /\ [][NextLoc]_vars

\* The history of an entity is read by type and id alone: its specification creates
\* officers and vehicles with the status omitted, records points for the first id of
\* each table and queries that id and one without points.
SampledIds == {1}
QueriedIds == {1, 2}

Tracked(c) ==
    \/ \E b \in {q \in FreeBadges : q = CHOOSE x \in FreeBadges : TRUE} :
          createSecurityOfficer(c, b, NULL)
    \/ \E p \in {q \in FreePlates : q = CHOOSE x \in FreePlates : TRUE} :
          createCorporateVehicle(c, p, NULL)

Samples(c) ==
    \/ \E type \in EntityTypes, eid \in SampledIds, t \in TimestampInputs :
          RecordSelectEntity(c, type, eid, t)
    \/ RecordInsert(c)

History(c) ==
    \E type \in EntityTypes, eid \in QueriedIds, start \in StartInputs, end \in EndInputs,
       limit \in LimitInputs :
       getLocationHistoryProcedure(c, [entity_type |-> type, entity_id |-> eid,
                                       start_date |-> start, end_date |-> end,
                                       limit |-> limit])

NextHist ==
    \/ Tracked(Main) /\ Journal(Main)
    \/ Samples(Main) /\ Journal(Main)
    \/ History(Main) /\ Journal(Main)
    \/ Return(Main) /\ Journal(Main)

SpecHist == Init /\ [][NextHist]_vars

\* The route ledger under update: routes are opened with the optional inputs omitted,
\* the route updated is the second one, before and after it exists, and the patch is
\* any combination of omitted, null and given fields.
UpdatedIds == {2}
NamePatches == {NULL, Some(NULL), Some(Some("Night round"))}
EndTimePatches == {NULL, Some(NULL), Some(Some(1))}
DistancePatches == {NULL, Some(NULL), Some(Some(25500))}
DurationPatches == {NULL, Some(NULL), Some(Some(540))}
StatusPatches == {NULL, Some("active"), Some("completed"), Some("interrupted")}

Opens(c) ==
    \E type \in EntityTypes :
       createRoute(c, [entity_type |-> type, entity_id |-> 1, route_name |-> NULL,
                       start_time |-> NULL])

Updates(c) ==
    \E id \in UpdatedIds, name \in NamePatches, end \in EndTimePatches,
       dist \in DistancePatches, dur \in DurationPatches, st \in StatusPatches :
       updateRoute(c, [id |-> id, route_name |-> name, end_time |-> end,
                       total_distance |-> dist, total_duration |-> dur, status |-> st])

NextRoute ==
    \/ Opens(Main) /\ Journal(Main)
    \/ Updates(Main) /\ Journal(Main)
    \/ Return(Main) /\ Journal(Main)

SpecRoute == Init /\ [][NextRoute]_vars

\* The route ledger under creation: routes are opened for the first id of either
\* table, before and after an officer or a vehicle with that id is registered, with
\* the name omitted, empty or given and the start time omitted or given.
RouteNameInputs == {NULL, Some(Some("")), Some(Some("Patrol"))}
StartTimeInputs == {NULL, Some(1)}

Creates(c) ==
    \E type \in EntityTypes, name \in RouteNameInputs, start \in StartTimeInputs :
       createRoute(c, [entity_type |-> type, entity_id |-> 1, route_name |-> name,
                       start_time |-> start])

NextCreate ==
    \/ Tracked(Main) /\ Journal(Main)
    \/ Creates(Main) /\ Journal(Main)
    \/ Return(Main) /\ Journal(Main)

SpecCreate == Init /\ [][NextCreate]_vars

\* The route history: routes are opened for the ids 0 and 1 of either type, with the
\* start time omitted or given, the second route may be completed, and the handler is
\* called, as its tests call it, with every combination of filter fields.
RouteEntityIds == {0, 1}
TypeFilters == {NULL} \cup {Some(t) : t \in EntityTypes}
IdFilters == {NULL} \cup {Some(i) : i \in RouteEntityIds}
StatusFilters == {NULL, Some("active"), Some("completed")}

Starts(c) ==
    \E type \in EntityTypes, eid \in RouteEntityIds, start \in StartTimeInputs :
       createRoute(c, [entity_type |-> type, entity_id |-> eid, route_name |-> NULL,
                       start_time |-> start])

Completes(c) ==
    \E id \in UpdatedIds :
       updateRoute(c, [id |-> id, route_name |-> NULL, end_time |-> NULL,
                       total_distance |-> NULL, total_duration |-> NULL,
                       status |-> Some("completed")])

Filters ==
    [entity_type : TypeFilters, entity_id : IdFilters, start_date : StartInputs,
     end_date : EndInputs, status : StatusFilters]

NextRouteHist ==
    \/ Starts(Main) /\ Journal(Main)
    \/ Completes(Main) /\ Journal(Main)
    \/ (\E input \in Filters : getRouteHistory(Main, input)) /\ Journal(Main)
    \/ Return(Main) /\ Journal(Main)

SpecRouteHist == Init /\ [][NextRouteHist]_vars

\* The same query as a remote call, through the procedure and its input schema.
NextRouteApi ==
    \/ Opens(Main) /\ Journal(Main)
    \/ (\E input \in Filters : getRouteHistoryProcedure(Main, input)) /\ Journal(Main)
    \/ Return(Main) /\ Journal(Main)

SpecRouteApi == Init /\ [][NextRouteApi]_vars

\* The dashboard over the registry and the routes: officers and vehicles are created
\* with a status that is counted, one that is counted elsewhere or one that is not
\* counted, routes are opened and the second one may be completed.
CountedOfficerStatuses == {NULL, Some("on_duty"), Some("off_duty")}

Staff(c) ==
    \/ \E b \in {q \in FreeBadges : q = CHOOSE x \in FreeBadges : TRUE},
          s \in CountedOfficerStatuses : createSecurityOfficer(c, b, s)
    \/ \E p \in {q \in FreePlates : q = CHOOSE x \in FreePlates : TRUE},
          s \in VehicleStatusInputs : createCorporateVehicle(c, p, s)

NextDash ==
    \/ Staff(Main) /\ Journal(Main)
    \/ Opens(Main) /\ Journal(Main)
    \/ Completes(Main) /\ Journal(Main)
    \/ getDashboardData(Main) /\ Journal(Main)
    \/ Return(Main) /\ Journal(Main)

SpecDash == Init /\ [][NextDash]_vars

\* The dashboard over the assignment ledger: vehicles are created with either status,
\* the first driver is assigned and unassigned, and a second caller's assignment of
\* driver 1 to vehicle 1 may overlap those calls. The store is quiescent while the
\* dashboard is read: no other call is in progress then, and none begins before the
\* result is taken.
Rival == "c2"
AssignedDrivers == {1}

Garage(c) ==
    \/ \E p \in {q \in FreePlates : q = CHOOSE x \in FreePlates : TRUE},
          s \in VehicleStatusInputs : createCorporateVehicle(c, p, s)
    \/ \E l \in {q \in FreeLicenses : q = CHOOSE x \in FreeLicenses : TRUE} :
          createDriver(c, l, NULL)

Shifts(c) ==
    \/ \E v \in EntityIds, d \in AssignedDrivers : AssignSelectVehicle(c, v, d)
    \/ AssignSelectDriver(c)
    \/ AssignDeactivate(c)
    \/ AssignInsert(c)
    \/ \E v \in EntityIds : UnassignSelect(c, v)
    \/ UnassignUpdate(c)

Overlaps(c) ==
    \/ AssignSelectVehicle(c, 1, 1)
    \/ AssignSelectDriver(c)
    \/ AssignDeactivate(c)
    \/ AssignInsert(c)
    \/ Return(c)

Quiescent(c) == \A o \in Callers \ {c} : calls[o].pc \in {"idle", "done"}
Reading(c) == calls[c].op = "getDashboardData"

NextDashUse ==
    \/ Garage(Main) /\ UNCHANGED pre
    \/ Shifts(Main) /\ UNCHANGED pre
    \/ Overlaps(Rival) /\ ~Reading(Main) /\ UNCHANGED pre
    \/ getDashboardData(Main) /\ Quiescent(Main) /\ UNCHANGED pre
    \/ Return(Main) /\ UNCHANGED pre

SpecDashUse == Init /\ [][NextDashUse]_vars

\* The dashboard over the location ledger: officers and vehicles are created with
\* either status and points are recorded for them with the timestamp omitted (the
\* instant of the call), two days in the past or one day ahead. The clock stands
\* still, so the instant of the dashboard call is the value of now.
ReportedTimestamps == {NULL, Some(0 - 2), Some(1)}

Reports(c) ==
    \/ \E type \in EntityTypes, eid \in SampledIds, t \in ReportedTimestamps :
          RecordSelectEntity(c, type, eid, t)
    \/ RecordInsert(c)

NextDashRecent ==
    \/ Posts(Main) /\ Journal(Main)
    \/ Reports(Main) /\ Journal(Main)
    \/ getDashboardData(Main) /\ Journal(Main)
    \/ Return(Main) /\ Journal(Main)

SpecDashRecent == Init /\ [][NextDashRecent]_vars

\* The registry under any keys: two callers create officers, vehicles and drivers with
\* keys that may already be held. Each create is one INSERT statement, on which the
\* store enforces the unique constraint.
Registers(c) ==
    \/ \E b \in Badges : createSecurityOfficer(c, b, NULL)
    \/ \E p \in Plates : createCorporateVehicle(c, p, NULL)
    \/ \E l \in Licenses : createDriver(c, l, NULL)

NextReg ==
    \/ \E c \in Callers : Registers(c) /\ UNCHANGED pre
    \/ \E c \in Callers : Return(c) /\ UNCHANGED pre

SpecReg == Init /\ [][NextReg]_vars

\* Two reads of one store: the first caller creates entities, records points and
\* reads the current locations; a second caller reads them too. Nothing is written
\* while a read is in progress or its result is held.
Current(c) ==
    \/ CurrentSelectOfficers(c)
    \/ CurrentSelectVehicles(c)

NextTie ==
    \/ Tracked(Main) /\ calls[Rival].pc = "idle" /\ UNCHANGED pre
    \/ Samples(Main) /\ calls[Rival].pc = "idle" /\ UNCHANGED pre
    \/ \E c \in Callers : Current(c) /\ UNCHANGED pre
    \/ \E c \in Callers : Return(c) /\ UNCHANGED pre

SpecTie == Init /\ [][NextTie]_vars

\* The vehicle list over the assignment ledger: the first caller creates vehicles and
\* drivers, assigns, unassigns and lists the vehicles; a second caller's assignment
\* of driver 1 to vehicle 1 may overlap those calls.
NextFleetList ==
    \/ Fleet(Main) /\ UNCHANGED pre
    \/ Shifts(Main) /\ UNCHANGED pre
    \/ Overlaps(Rival) /\ UNCHANGED pre
    \/ getCorporateVehicles(Main) /\ UNCHANGED pre
    \/ Return(Main) /\ UNCHANGED pre

SpecFleetList == Init /\ [][NextFleetList]_vars

\* Every handler that touches location_points: two callers record points, with
\* statements that interleave, and the first caller also reads the current
\* locations, the history of an entity and the dashboard.
Records(c) ==
    \/ \E type \in EntityTypes, eid \in SampledIds : RecordSelectEntity(c, type, eid, NULL)
    \/ RecordInsert(c)

Reads(c) ==
    \/ Current(c)
    \/ \E type \in EntityTypes :
          getLocationHistoryProcedure(c, [entity_type |-> type, entity_id |-> 1,
                                          start_date |-> NULL, end_date |-> NULL,
                                          limit |-> Some(1)])
    \/ getDashboardData(c)

NextPoints ==
    \/ Tracked(Main) /\ UNCHANGED pre
    \/ \E c \in Callers : Records(c) /\ UNCHANGED pre
    \/ Reads(Main) /\ UNCHANGED pre
    \/ \E c \in Callers : Return(c) /\ UNCHANGED pre
    \/ Tick /\ UNCHANGED pre

SpecPoints == Init /\ [][NextPoints]_vars

\* References under interleaving: the first caller creates officers, vehicles and
\* drivers, assigns the first driver and records points of the first entities; the
\* second caller assigns driver 2 to vehicle 2 and records a point of officer 2,
\* which may or may not exist yet. The statements of the two callers interleave.
Enrols(c) ==
    \/ \E b \in {q \in FreeBadges : q = CHOOSE x \in FreeBadges : TRUE} :
          createSecurityOfficer(c, b, NULL)
    \/ \E p \in {q \in FreePlates : q = CHOOSE x \in FreePlates : TRUE} :
          createCorporateVehicle(c, p, NULL)
    \/ \E l \in {q \in FreeLicenses : q = CHOOSE x \in FreeLicenses : TRUE} :
          createDriver(c, l, NULL)

Refers(c) ==
    \/ \E v \in EntityIds, d \in AssignedDrivers : AssignSelectVehicle(c, v, d)
    \/ AssignSelectDriver(c)
    \/ AssignDeactivate(c)
    \/ AssignInsert(c)
    \/ \E type \in EntityTypes, eid \in SampledIds : RecordSelectEntity(c, type, eid, NULL)
    \/ RecordInsert(c)

Intrudes(c) ==
    \/ AssignSelectVehicle(c, 2, 2)
    \/ AssignSelectDriver(c)
    \/ AssignDeactivate(c)
    \/ AssignInsert(c)
    \/ RecordSelectEntity(c, "security_officer", 2, NULL)
    \/ RecordInsert(c)

NextRefs ==
    \/ Enrols(Main) /\ UNCHANGED pre
    \/ Refers(Main) /\ UNCHANGED pre
    \/ Intrudes(Rival) /\ UNCHANGED pre
    \/ \E c \in Callers : Return(c) /\ UNCHANGED pre

SpecRefs == Init /\ [][NextRefs]_vars

\* ---------------------------------------------------------------- properties
\* The vocabulary of the properties, stated on the tables alone.
ActiveRowsOf(tbl, v) ==
    {i \in 1..Len(tbl) : tbl[i].vehicle_id = v /\ tbl[i].status = "active"}

Exists(tbl, id) == \E r \in Range(tbl) : r.id = id

AtMostOneActive(tbl) == \A v \in EntityIds : Cardinality(ActiveRowsOf(tbl, v)) <= 1

IsCall(c, op) == calls[c].op = op /\ calls[c].pc = "done"
Succeeded(c, op) == IsCall(c, op) /\ calls[c].kind = "ok"
Failed(c, op) == IsCall(c, op) /\ calls[c].kind = "error"

\* C1: under any interleaving of the statements of concurrent assignDriverToVehicle
\* calls, every vehicle has at most one assignment row with status 'active', and two
\* assign calls on one vehicle never both succeed leaving both their rows active.
C1_AtMostOneActiveUnderInterleaving ==
    /\ AtMostOneActive(assignments)
    /\ \A c, e \in Callers :
          (/\ c # e
           /\ Succeeded(c, "assignDriverToVehicle")
           /\ Succeeded(e, "assignDriverToVehicle")
           /\ calls[c].input.vehicle_id = calls[e].input.vehicle_id)
          => ~(\E i, j \in 1..Len(assignments) :
                 /\ assignments[i].id = calls[c].ret[1].id
                 /\ assignments[j].id = calls[e].ret[1].id
                 /\ assignments[i].status = "active"
                 /\ assignments[j].status = "active")

\* C2: after any sequence of createCorporateVehicle, createDriver, assignDriverToVehicle
\* and unassignDriverFromVehicle calls that do not overlap, starting from the empty
\* store, every vehicle has at most one assignment row with status 'active'.
C2_AtMostOneActiveSequential ==
    calls[Main].pc \in {"idle", "done"} => AtMostOneActive(assignments)

C2_Witness ==
    /\ calls[Main].pc = "idle"
    /\ \E v \in EntityIds :
          /\ Cardinality(ActiveRowsOf(assignments, v)) = 1
          /\ Cardinality({i \in 1..Len(assignments) :
                 assignments[i].vehicle_id = v /\ assignments[i].status = "inactive"}) = 2

\* C3: when assignDriverToVehicle(v, d2) succeeds on a vehicle whose active assignment
\* was to d1, v has exactly one active row afterwards, that row is the returned one
\* with driver_id = d2 and unassigned_at null, and the prior row is inactive with a
\* non-null unassigned_at.
C3_ReassignReplacesActive ==
    LET c == calls[Main]
        v == c.input.vehicle_id
        before == pre[Main].assignments
    IN  (Succeeded(Main, "assignDriverToVehicle") /\ ActiveRowsOf(before, v) # {})
        => /\ \E i \in 1..Len(assignments) :
                 /\ ActiveRowsOf(assignments, v) = {i}
                 /\ assignments[i] = c.ret[1]
           /\ c.ret[1].driver_id = c.input.driver_id
           /\ c.ret[1].unassigned_at = NULL
           /\ \A j \in ActiveRowsOf(before, v) :
                 /\ assignments[j].id = before[j].id
                 /\ assignments[j].driver_id = before[j].driver_id
                 /\ assignments[j].status = "inactive"
                 /\ assignments[j].unassigned_at # NULL

C3_Witness ==
    LET c == calls[Main]
        before == pre[Main].assignments
    IN  /\ Succeeded(Main, "assignDriverToVehicle")
        /\ \E j \in ActiveRowsOf(before, c.input.vehicle_id) :
              before[j].driver_id # c.input.driver_id

\* C4: assignDriverToVehicle has no partial success: whenever the call ends in an
\* error, the assignment table is what it was when the call began.
C4_NoPartialSuccess ==
    Failed(Main, "assignDriverToVehicle") => assignments = pre[Main].assignments

\* C5: assignDriverToVehicle(v, d) fails with a not-found error whenever v is no
\* vehicle's id or d is no driver's id, and then changes no assignment row.
C5_NotFoundChangesNothing ==
    LET c == calls[Main]
    IN  (/\ IsCall(Main, "assignDriverToVehicle")
         /\ \/ ~Exists(vehicles, c.input.vehicle_id)
            \/ ~Exists(drivers, c.input.driver_id))
        => /\ c.kind = "error"
           /\ c.error = IF ~Exists(vehicles, c.input.vehicle_id)
                         THEN "VehicleNotFound" ELSE "DriverNotFound"
           /\ assignments = pre[Main].assignments

C5_Witness ==
    /\ Failed(Main, "assignDriverToVehicle")
    /\ calls[Main].error = "DriverNotFound"
    /\ ActiveRowsOf(assignments, calls[Main].input.vehicle_id) # {}

\* C6: unassignDriverFromVehicle(v) on a vehicle id with no active assignment row
\* returns null without error and leaves every assignment row unchanged.
C6_UnassignWithoutActiveRow ==
    LET c == calls[Main]
    IN  (/\ IsCall(Main, "unassignDriverFromVehicle")
         /\ ActiveRowsOf(pre[Main].assignments, c.input.vehicleId) = {})
        => /\ c.kind = "ok"
           /\ c.ret = NULL
           /\ assignments = pre[Main].assignments

C6_Witness ==
    /\ Succeeded(Main, "unassignDriverFromVehicle")
    /\ calls[Main].ret = NULL
    /\ \E i \in 1..Len(assignments) :
          /\ assignments[i].vehicle_id = calls[Main].input.vehicleId
          /\ assignments[i].status = "inactive"
    /\ \E v \in EntityIds : ~Exists(vehicles, v)

\* C7: unassignDriverFromVehicle(v) on a vehicle with an active row sets that row to
\* 'inactive' with a non-null unassigned_at, returns the updated row, leaves v with no
\* active row and changes no other assignment row.
C7_UnassignDeactivatesOnlyActiveRow ==
    LET c == calls[Main]
        v == c.input.vehicleId
        before == pre[Main].assignments
    IN  (IsCall(Main, "unassignDriverFromVehicle") /\ ActiveRowsOf(before, v) # {})
        => /\ c.kind = "ok"
           /\ ActiveRowsOf(assignments, v) = {}
           /\ \E i \in ActiveRowsOf(before, v) :
                 /\ assignments[i].status = "inactive"
                 /\ assignments[i].unassigned_at # NULL
                 /\ c.ret = <<assignments[i]>>
                 /\ assignments = [before EXCEPT ![i] =
                        [@ EXCEPT !.status = "inactive",
                                  !.unassigned_at = assignments[i].unassigned_at]]

C7_Witness ==
    LET c == calls[Main]
        v == c.input.vehicleId
        before == pre[Main].assignments
    IN  /\ Succeeded(Main, "unassignDriverFromVehicle")
        /\ c.ret # NULL
        /\ \E i, j \in 1..Len(before) :
              /\ before[i].vehicle_id = v /\ before[i].status = "inactive"
              /\ before[j].vehicle_id # v /\ before[j].status = "active"

\* C8: assignment history is retained: no step removes an assignment row or changes a
\* row's id, vehicle_id, driver_id or assigned_at, and getVehicleDriverAssignments
\* returns every row of the table, active and inactive alike.
RowsRetained ==
    /\ Len(assignments') >= Len(assignments)
    /\ \A i \in 1..Len(assignments) :
          /\ assignments'[i].id = assignments[i].id
          /\ assignments'[i].vehicle_id = assignments[i].vehicle_id
          /\ assignments'[i].driver_id = assignments[i].driver_id
          /\ assignments'[i].assigned_at = assignments[i].assigned_at

ListsEveryRow ==
    (calls'[Main].op = "getVehicleDriverAssignments" /\ calls'[Main].kind = "ok")
    => calls'[Main].ret = assignments'

C8_HistoryRetained == [][RowsRetained /\ ListsEveryRow]_vars

C8_Witness ==
    /\ Succeeded(Main, "getVehicleDriverAssignments")
    /\ \E i, j \in 1..Len(calls[Main].ret) :
          /\ calls[Main].ret[i].status = "active"
          /\ calls[Main].ret[j].status = "inactive"
          /\ calls[Main].ret[j].assigned_at < now

\* C9: recordLocationPoint looks entity_id up in the table its entity_type names; an
\* id found only in the other table, or in neither, makes the call fail with a
\* not-found error, and the failed call appends no location point.
C9_RecordChecksEntityTable ==
    LET c == calls[Main]
        parent == IF c.input.entity_type = "security_officer" THEN officers ELSE vehicles
    IN  (IsCall(Main, "recordLocationPoint") /\ ~Exists(parent, c.input.entity_id))
        => /\ c.kind = "error"
           /\ c.error = IF c.input.entity_type = "security_officer"
                         THEN "OfficerNotFound" ELSE "VehicleNotFound"
           /\ points = pre[Main].points

C9_Witness ==
    LET c == calls[Main]
    IN  /\ Failed(Main, "recordLocationPoint")
        /\ c.input.entity_type = "corporate_vehicle"
        /\ Exists(officers, c.input.entity_id)
        /\ ~Exists(vehicles, c.input.entity_id)
        /\ points # <<>>

\* C10: for every on-duty officer and every active vehicle with at least one recorded
\* point, getCurrentLocations returns exactly one point of that entity, and its
\* timestamp is the greatest among the entity's points; such an entity with no point
\* is absent from the result.
Eligible(type, id) ==
    \/ type = "security_officer"
       /\ \E r \in Range(officers) : r.id = id /\ r.status = "on_duty"
    \/ type = "corporate_vehicle"
       /\ \E r \in Range(vehicles) : r.id = id /\ r.status = "active"

PointsOf(type, id) ==
    {p \in Range(points) : p.entity_type = type /\ p.entity_id = id}

C10_CurrentLocationIsLatestPoint ==
    Succeeded(Main, "getCurrentLocations")
    => \A type \in EntityTypes, id \in EntityIds :
          Eligible(type, id)
          => LET ret == calls[Main].ret
                 mine == {j \in 1..Len(ret) :
                             ret[j].entity_type = type /\ ret[j].entity_id = id}
             IN  IF PointsOf(type, id) = {}
                 THEN mine = {}
                 ELSE /\ Cardinality(mine) = 1
                      /\ \A j \in mine :
                            /\ ret[j] \in PointsOf(type, id)
                            /\ \A p \in PointsOf(type, id) : p.timestamp <= ret[j].timestamp

C10_Witness ==
    /\ Succeeded(Main, "getCurrentLocations")
    /\ Len(calls[Main].ret) = 1
    /\ \E p, q \in Range(points) :
          /\ p.entity_type = q.entity_type /\ p.entity_id = q.entity_id
          /\ Eligible(p.entity_type, p.entity_id)
          /\ p.id < q.id /\ p.timestamp > q.timestamp
    /\ \E type \in EntityTypes, id \in EntityIds :
          Eligible(type, id) /\ PointsOf(type, id) = {}

\* C11: no point returned by getCurrentLocations belongs to an officer whose status is
\* not 'on_duty' or to a vehicle whose status is not 'active', also when an officer id
\* and a vehicle id are the same number and only one of the two is eligible.
C11_OnlyEligibleEntitiesReturned ==
    Succeeded(Main, "getCurrentLocations")
    => \A j \in 1..Len(calls[Main].ret) :
          Eligible(calls[Main].ret[j].entity_type, calls[Main].ret[j].entity_id)

C11_Witness ==
    /\ Succeeded(Main, "getCurrentLocations")
    /\ \E p, q \in Range(points) :
          /\ p.entity_id = q.entity_id /\ p.entity_type # q.entity_type
          /\ Eligible(p.entity_type, p.entity_id)
          /\ ~Eligible(q.entity_type, q.entity_id)
          /\ \E j \in 1..Len(calls[Main].ret) : calls[Main].ret[j] = p
    /\ \E r \in Range(officers) : r.status = "active" /\ PointsOf("security_officer", r.id) # {}
    /\ \E r \in Range(vehicles) :
          r.status = "maintenance" /\ PointsOf("corporate_vehicle", r.id) # {}

\* The points a history query asks for, stated on the table and the input alone.
InRange(p, input) ==
    /\ p.entity_type = input.entity_type
    /\ p.entity_id = input.entity_id
    /\ \A i \in 1..Len(input.start_date) : input.start_date[i] <= p.timestamp
    /\ \A i \in 1..Len(input.end_date) : p.timestamp <= input.end_date[i]

Asked(input) == {p \in Range(points) : InRange(p, input)}

Least(a, b) == IF a < b THEN a ELSE b

\* The most recent n of the asked points, newest first, each at most once.
MostRecent(ret, input, n) ==
    /\ Len(ret) = Least(n, Cardinality(Asked(input)))
    /\ \A j \in 1..Len(ret) : ret[j] \in Asked(input)
    /\ \A j, k \in 1..Len(ret) : j < k => ret[j] # ret[k] /\ ret[j].timestamp >= ret[k].timestamp
    /\ \A p \in Asked(input) :
          (\A j \in 1..Len(ret) : ret[j] # p)
          => \A j \in 1..Len(ret) : p.timestamp <= ret[j].timestamp

\* C12: a successful getLocationHistory returns the first min(L, m) of the points with
\* exactly the given entity_type and entity_id and with start_date <= timestamp <=
\* end_date (each bound applied only when present), sorted by timestamp non-increasing,
\* where m is their number and L is the requested limit, or 100 when it is omitted.
C12_HistoryIsMostRecentInRange ==
    Succeeded(Main, "getLocationHistory")
    => MostRecent(calls[Main].ret, calls[Main].input,
                  IF calls[Main].input.limit = NULL THEN 100 ELSE calls[Main].input.limit[1])

C12_Witness ==
    LET c == calls[Main]
    IN  /\ Succeeded(Main, "getLocationHistory")
        /\ c.input.start_date # NULL /\ c.input.end_date # NULL /\ c.input.limit # NULL
        /\ Len(c.ret) = 1
        /\ Cardinality(Asked(c.input)) = 2
        /\ \E p \in Range(points) :
              /\ p.entity_type = c.input.entity_type /\ p.entity_id = c.input.entity_id
              /\ p \notin Asked(c.input)

\* C13 as stated: the limit is clamped to [1,1000]: the call succeeds for every limit,
\* a limit below 1 behaves as 1, a limit above 1000 as 1000, an omitted limit as 100.
Clamped(limit) ==
    IF limit = NULL THEN 100
    ELSE IF limit[1] < 1 THEN 1 ELSE IF limit[1] > 1000 THEN 1000 ELSE limit[1]

C13_LimitClamped ==
    IsCall(Main, "getLocationHistory")
    => /\ calls[Main].kind = "ok"
       /\ MostRecent(calls[Main].ret, calls[Main].input, Clamped(calls[Main].input.limit))

\* C13 amended: a limit below 1 or above 1000 makes the call fail with InvalidInput
\* and return nothing; a limit from 1 to 1000 is applied as given and an omitted limit
\* behaves as 100.
OutOfRange(limit) == limit # NULL /\ (limit[1] < 1 \/ limit[1] > 1000)

C13_LimitOutOfRangeRejected ==
    IsCall(Main, "getLocationHistory")
    => IF OutOfRange(calls[Main].input.limit)
       THEN /\ calls[Main].kind = "error"
            /\ calls[Main].error = "InvalidInput"
            /\ calls[Main].ret = NULL
       ELSE /\ calls[Main].kind = "ok"
            /\ MostRecent(calls[Main].ret, calls[Main].input,
                          IF calls[Main].input.limit = NULL THEN 100
                          ELSE calls[Main].input.limit[1])

C13_Witness ==
    /\ Failed(Main, "getLocationHistory")
    /\ calls[Main].input.limit = Some(1001)
    /\ Cardinality(Asked(calls[Main].input)) = 3

\* What a patch asks of one route, stated field by field on the row before and after.
PatchFields == {"route_name", "end_time", "total_distance", "total_duration", "status"}
KeptFields == {"id", "entity_type", "entity_id", "start_time", "created_at"}

PatchApplied(before, after, input) ==
    /\ \A f \in PatchFields :
          after[f] = IF input[f] = NULL THEN before[f] ELSE input[f][1]
    /\ \A f \in KeptFields : after[f] = before[f]

OnlyRoutePatched(before, after, input) ==
    /\ Len(after) = Len(before)
    /\ \A i \in 1..Len(before) :
          IF before[i].id = input.id
          THEN PatchApplied(before[i], after[i], input)
          ELSE after[i] = before[i]

\* C14: updateRoute(id, patch) on an existing route is carried out for every subset of
\* present fields, the patch that carries only the id included: each present field
\* takes the given value (an explicit null stores null), each omitted field keeps its
\* value, id, entity_type, entity_id, start_time and created_at never change, and no
\* other route is modified.
C14_PatchChangesExactlyPresentFields ==
    (IsCall(Main, "updateRoute") /\ Exists(pre[Main].routes, calls[Main].input.id))
    => /\ calls[Main].kind = "ok"
       /\ OnlyRoutePatched(pre[Main].routes, routes, calls[Main].input)

\* C15: createRoute succeeds for every input, whether or not entity_id references an
\* existing officer or vehicle, and appends exactly one route, with status 'active',
\* end_time, total_distance and total_duration null, and start_time the supplied one,
\* or the time of the write when it is omitted.
C15_CreateRouteAppendsActiveRoute ==
    IsCall(Main, "createRoute")
    => LET c == calls[Main]
           before == pre[Main].routes
       IN  /\ c.kind = "ok"
           /\ Len(routes) = Len(before) + 1
           /\ SubSeq(routes, 1, Len(before)) = before
           /\ LET r == routes[Len(routes)]
              IN  /\ r.entity_type = c.input.entity_type
                  /\ r.entity_id = c.input.entity_id
                  /\ r.status = "active"
                  /\ r.end_time = NULL
                  /\ r.total_distance = NULL
                  /\ r.total_duration = NULL
                  /\ r.start_time = IF c.input.start_time = NULL THEN now
                                    ELSE c.input.start_time[1]
                  /\ \A i \in 1..Len(before) : before[i].id # r.id

C15_Witness ==
    LET c == calls[Main]
    IN  /\ Succeeded(Main, "createRoute")
        /\ c.input.entity_type = "security_officer"
        /\ ~Exists(officers, c.input.entity_id)
        /\ Exists(vehicles, c.input.entity_id)
        /\ c.input.start_time # NULL
        /\ \E r \in Range(pre[Main].routes) :
              r.entity_type = "corporate_vehicle" /\ r.start_time = now

\* The routes a filter asks for, stated on the table and the input alone.
Wanted(input) ==
    {r \in Range(routes) :
        /\ \A i \in 1..Len(input.entity_type) : r.entity_type = input.entity_type[i]
        /\ \A i \in 1..Len(input.entity_id) : r.entity_id = input.entity_id[i]
        /\ \A i \in 1..Len(input.start_date) : input.start_date[i] <= r.start_time
        /\ \A i \in 1..Len(input.end_date) : r.start_time <= input.end_date[i]
        /\ \A i \in 1..Len(input.status) : r.status = input.status[i]}

\* ret lists each route of the set once, by start_time non-increasing.
ListsNewestFirst(ret, set) ==
    /\ Len(ret) = Cardinality(set)
    /\ \A j \in 1..Len(ret) : ret[j] \in set
    /\ \A j, k \in 1..Len(ret) :
          j < k => ret[j] # ret[k] /\ ret[j].start_time >= ret[k].start_time

\* C16: for every subset of the filter fields entity_type, entity_id, start_date,
\* end_date and status, getRouteHistory returns exactly the routes that satisfy all
\* the conditions present (equality on entity_type, entity_id and status, start_date
\* <= start_time <= end_date), by start_time non-increasing; an entity_id of 0 is a
\* filter like any other.
C16_RouteHistoryAppliesPresentFilters ==
    IsCall(Main, "getRouteHistory")
    => /\ calls[Main].kind = "ok"
       /\ ListsNewestFirst(calls[Main].ret, Wanted(calls[Main].input))

C16_Witness ==
    LET c == calls[Main]
    IN  /\ Succeeded(Main, "getRouteHistory")
        /\ c.input.entity_id = Some(0)
        /\ c.input.entity_type = NULL
        /\ c.input.status = Some("completed")
        /\ Len(c.ret) = 1
        /\ \E r \in Range(routes) : r.entity_id = 1 /\ r.status = "active"

\* C17: a getRouteHistory remote call with no filter field present is accepted and
\* returns all stored routes, by start_time descending: no filter field, entity_type
\* included, is mandatory at the API surface.
NoFilter(input) ==
    /\ input.entity_type = NULL /\ input.entity_id = NULL /\ input.status = NULL
    /\ input.start_date = NULL /\ input.end_date = NULL

C17_NoFilterReturnsAllRoutes ==
    (IsCall(Main, "getRouteHistory") /\ NoFilter(calls[Main].input))
    => /\ calls[Main].kind = "ok"
       /\ ListsNewestFirst(calls[Main].ret, Range(routes))

\* C19: a getDashboardData call that no write overlaps returns as
\* active_security_officers the number of officers whose status is exactly 'active',
\* as officers_on_duty the number whose status is 'on_duty', as active_vehicles the
\* number of vehicles whose status is 'active' and as total_active_routes the number
\* of routes whose status is 'active'; on an empty store the five counts are 0 and
\* recent_location_updates is the empty list.
Having(tbl, status) == Cardinality({r \in Range(tbl) : r.status = status})

EmptyStore ==
    /\ officers = <<>> /\ vehicles = <<>> /\ drivers = <<>>
    /\ assignments = <<>> /\ points = <<>> /\ routes = <<>>

C19_DashboardCounts ==
    IsCall(Main, "getDashboardData")
    => /\ calls[Main].kind = "ok"
       /\ LET d == calls[Main].ret[1]
          IN  /\ d.active_security_officers = Having(officers, "active")
              /\ d.officers_on_duty = Having(officers, "on_duty")
              /\ d.active_vehicles = Having(vehicles, "active")
              /\ d.total_active_routes = Having(routes, "active")
              /\ EmptyStore
                 => /\ d.active_security_officers = 0 /\ d.officers_on_duty = 0
                    /\ d.active_vehicles = 0 /\ d.vehicles_in_use = 0
                    /\ d.total_active_routes = 0
                    /\ d.recent_location_updates = <<>>

C19_Witness ==
    /\ Succeeded(Main, "getDashboardData")
    /\ Len(officers) = 2 /\ Len(vehicles) = 2 /\ Len(routes) = 2
    /\ calls[Main].ret[1].active_security_officers = 1
    /\ calls[Main].ret[1].officers_on_duty = 1
    /\ calls[Main].ret[1].active_vehicles = 1
    /\ calls[Main].ret[1].total_active_routes = 1
    /\ \E r \in Range(vehicles) : r.status = "maintenance"
    /\ \E r \in Range(routes) : r.status = "completed"

\* C18: a getDashboardData call that no write overlaps returns as vehicles_in_use the
\* number of distinct vehicle_id values among the assignment rows whose status is
\* 'active' and whose vehicle has status 'active': nothing else in the row, its
\* unassigned_at included, changes the count, and a vehicle with several such rows
\* is counted once.
Qualifying ==
    {r \in Range(assignments) :
        /\ r.status = "active"
        /\ \E v \in Range(vehicles) : v.id = r.vehicle_id /\ v.status = "active"}

C18_VehiclesInUseCountsDistinctActive ==
    IsCall(Main, "getDashboardData")
    => /\ calls[Main].kind = "ok"
       /\ calls[Main].ret[1].vehicles_in_use = Cardinality({r.vehicle_id : r \in Qualifying})

C18_Witness ==
    /\ Succeeded(Main, "getDashboardData")
    /\ calls[Main].ret[1].vehicles_in_use = 1
    /\ Cardinality({r \in Qualifying : r.vehicle_id = 1}) = 2
    /\ \E r \in Range(assignments) : r.vehicle_id = 2 /\ r.status = "active"
    /\ \E v \in Range(vehicles) : v.id = 2 /\ v.status = "maintenance"

\* C20: the recent_location_updates of a getDashboardData call has at most 10
\* elements, is ordered by timestamp non-increasing, holds only points whose
\* timestamp is neither more than a day before the call nor later than the call, and
\* holds the most recent of those points when there are more than 10, whatever the
\* status of the entity they belong to.
LastDay == {p \in Range(points) : now - 1 <= p.timestamp /\ p.timestamp <= now}

NewestOf(ret, set, n) ==
    /\ Len(ret) = IF Cardinality(set) < n THEN Cardinality(set) ELSE n
    /\ \A i \in 1..Len(ret) : ret[i] \in set
    /\ \A i, j \in 1..Len(ret) : i < j => ret[i].id # ret[j].id
    /\ \A i, j \in 1..Len(ret) : i < j => ret[i].timestamp >= ret[j].timestamp
    /\ \A p \in set : (\A i \in 1..Len(ret) : ret[i].id # p.id)
                         => \A i \in 1..Len(ret) : ret[i].timestamp >= p.timestamp

C20_RecentUpdatesWithinLastDay ==
    IsCall(Main, "getDashboardData")
    => /\ calls[Main].kind = "ok"
       /\ Len(calls[Main].ret[1].recent_location_updates) <= 10
       /\ NewestOf(calls[Main].ret[1].recent_location_updates, LastDay, 10)

\* C21: a createSecurityOfficer, createCorporateVehicle or createDriver call whose
\* badge_number, license_plate or license_number is held by a stored row fails and
\* leaves its table unchanged; hence in every reachable state, creates of several
\* callers with one key included, no two officers share a badge_number, no two
\* vehicles a license_plate and no two drivers a license_number.
Holders(tbl, field, key) == {i \in 1..Len(tbl) : tbl[i][field] = key}

UniqueKeys ==
    /\ \A b \in Badges : Cardinality(Holders(officers, "badge_number", b)) <= 1
    /\ \A p \in Plates : Cardinality(Holders(vehicles, "license_plate", p)) <= 1
    /\ \A l \in Licenses : Cardinality(Holders(drivers, "license_number", l)) <= 1

CreatedBy(c, op) == calls[c].pc = "idle" /\ calls'[c].op = op

DuplicateRefused ==
    \A c \in Callers :
        /\ CreatedBy(c, "createSecurityOfficer")
              /\ Holders(officers, "badge_number", calls'[c].input.badge_number) # {}
           => calls'[c].kind = "error" /\ officers' = officers
        /\ CreatedBy(c, "createCorporateVehicle")
              /\ Holders(vehicles, "license_plate", calls'[c].input.license_plate) # {}
           => calls'[c].kind = "error" /\ vehicles' = vehicles
        /\ CreatedBy(c, "createDriver")
              /\ Holders(drivers, "license_number", calls'[c].input.license_number) # {}
           => calls'[c].kind = "error" /\ drivers' = drivers

C21_UniqueKeysEnforced == [][DuplicateRefused]_vars /\ []UniqueKeys

C21_Witness ==
    /\ Succeeded(Main, "createCorporateVehicle")
    /\ Failed(Rival, "createCorporateVehicle")
    /\ calls[Rival].error = "ConstraintViolation"
    /\ calls[Rival].input.license_plate = calls[Main].input.license_plate
    /\ Cardinality(Holders(vehicles, "license_plate", calls[Main].input.license_plate)) = 1
    /\ Len(officers) = 1 /\ Len(drivers) = 1

\* C22: two getCurrentLocations calls against identical store contents return the
\* same point for every entity, also when several points of an eligible entity share
\* its greatest timestamp and whatever the order in which the store returns them.
C22_SameStoreSameLocations ==
    Succeeded(Main, "getCurrentLocations") /\ Succeeded(Rival, "getCurrentLocations")
    => Range(calls[Main].ret) = Range(calls[Rival].ret)

\* C23: in every state reached through createRoute and updateRoute, every route whose
\* status is 'active' has a null end_time.
C23_ActiveRouteHasNoEndTime ==
    \A r \in Range(routes) : r.status = "active" => r.end_time = NULL

\* C24: updateRoute enforces no order on the statuses: a call that carries a status,
\* on an existing route in any status, succeeds and leaves the route in the status it
\* carries; a completed route can be made active again and an interrupted one
\* completed.
StatusBefore(c, id) == {r.status : r \in {q \in Range(pre[c].routes) : q.id = id}}
StatusAfter(id) == {r.status : r \in {q \in Range(routes) : q.id = id}}

C24_AnyStatusCanBeWritten ==
    LET c == calls[Main]
    IN  IsCall(Main, "updateRoute") /\ c.input.status # NULL
           /\ StatusBefore(Main, c.input.id) # {}
        => /\ c.kind = "ok"
           /\ StatusAfter(c.input.id) = {c.input.status[1]}
           /\ \A i \in 1..Len(c.ret) : c.ret[i].status = c.input.status[1]

C24_Witness ==
    LET c == calls[Main]
    IN  /\ Succeeded(Main, "updateRoute")
        /\ StatusBefore(Main, c.input.id) = {"completed"}
        /\ c.input.status = Some("active")
        /\ StatusAfter(c.input.id) = {"active"}

\* C25: in every state reached through assignDriverToVehicle and
\* unassignDriverFromVehicle from an empty assignment table, an assignment row has
\* status 'active' if and only if its unassigned_at is null: the condition
\* unassigned_at IS NULL of the dashboard never excludes an active row.
C25_ActiveIffNotUnassigned ==
    \A r \in Range(assignments) : r.status = "active" <=> r.unassigned_at = NULL

C25_Witness ==
    /\ Succeeded(Main, "unassignDriverFromVehicle")
    /\ calls[Main].ret # NULL
    /\ \E r \in Range(assignments) : r.status = "inactive" /\ r.unassigned_at # NULL
    /\ \E r \in Range(assignments) : r.status = "active" /\ r.unassigned_at = NULL
    /\ Len(assignments) = 3

\* C26: an assignment row becomes inactive once: no step of an assignDriverToVehicle
\* or unassignDriverFromVehicle call, calls that overlap on one vehicle included,
\* changes the status or the unassigned_at of a row that is inactive, and
\* unassignDriverFromVehicle returns a row only if this very call moved that row
\* from active to inactive.
InactiveRowsKept ==
    \A i \in 1..Len(assignments) :
        assignments[i].status = "inactive"
        => /\ assignments'[i].status = "inactive"
           /\ assignments'[i].unassigned_at = assignments[i].unassigned_at

ReturnsOwnTransition ==
    \A c \in Callers :
        /\ calls[c].op = "unassignDriverFromVehicle" /\ calls[c].pc = "update"
        /\ calls'[c].pc = "done" /\ calls'[c].kind = "ok"
        => \A k \in 1..Len(calls'[c].ret) :
              \E i \in 1..Len(assignments) :
                 /\ assignments[i].id = calls'[c].ret[k].id
                 /\ assignments[i].status = "active"
                 /\ assignments'[i].status = "inactive"

C26_InactiveExactlyOnce == [][InactiveRowsKept /\ ReturnsOwnTransition]_vars

\* C27: in every state reached through the handlers, getCorporateVehicles returns
\* every stored vehicle exactly once, so as many rows as there are vehicles, whether
\* the vehicle has no assignment, an active one or only historical ones.
C27_EachVehicleListedOnce ==
    IsCall(Main, "getCorporateVehicles")
    => /\ calls[Main].kind = "ok"
       /\ Len(calls[Main].ret) = Len(vehicles)
       /\ \A v \in Range(vehicles) :
             Cardinality({k \in 1..Len(calls[Main].ret) : calls[Main].ret[k].id = v.id}) = 1

\* C28: the location ledger is append-only: a step in which a recordLocationPoint call
\* succeeds adds exactly one point, the one the call returns, and no step of any
\* operation changes or removes a stored point, so the stored points only grow.
Recorded(c) ==
    /\ calls[c].pc # "done" /\ calls'[c].pc = "done"
    /\ calls'[c].op = "recordLocationPoint" /\ calls'[c].kind = "ok"

PointsKept ==
    /\ Len(points') >= Len(points)
    /\ \A i \in 1..Len(points) : points'[i] = points[i]

OnePointPerRecord ==
    /\ Len(points') = Len(points) + Cardinality({c \in Callers : Recorded(c)})
    /\ \A c \in Callers : Recorded(c) => points'[Len(points')] = calls'[c].ret[1]

C28_PointsAppendOnly == [][PointsKept /\ OnePointPerRecord]_vars

C28_Witness ==
    /\ Succeeded(Main, "recordLocationPoint")
    /\ Succeeded(Rival, "recordLocationPoint")
    /\ Len(points) = 3
    /\ points[3] = calls[Rival].ret[1]
    /\ points[2] = calls[Main].ret[1]
    /\ points[1].timestamp < points[3].timestamp

\* C29: in every state reached through the handlers, under any interleaving, the
\* vehicle_id and the driver_id of every assignment row are the ids of a stored
\* vehicle and a stored driver, and the entity_id of every location point is the id
\* of a stored row of the table its entity_type names.
Referenced(type) == IF type = "security_officer" THEN officers ELSE vehicles

C29_ReferencesResolve ==
    /\ \A a \in Range(assignments) :
          Exists(vehicles, a.vehicle_id) /\ Exists(drivers, a.driver_id)
    /\ \A p \in Range(points) : Exists(Referenced(p.entity_type), p.entity_id)

C29_Witness ==
    /\ Succeeded(Main, "assignDriverToVehicle")
    /\ Failed(Rival, "recordLocationPoint")
    /\ Len(officers) = 1 /\ Len(vehicles) = 2 /\ Len(drivers) = 2
    /\ \E p \in Range(points) : p.entity_type = "security_officer" /\ p.entity_id = 1
    /\ \E a \in Range(assignments) : a.vehicle_id = 2 /\ a.driver_id = 2
    /\ \E a \in Range(assignments) : a.vehicle_id = 2 /\ a.driver_id = 1

\* C30: every result of a getDashboardData call that no write overlaps has
\* vehicles_in_use <= active_vehicles: the vehicles counted as in use are themselves
\* of status 'active'.
C30_InUseAtMostActive ==
    IsCall(Main, "getDashboardData")
    => /\ calls[Main].kind = "ok"
       /\ calls[Main].ret[1].vehicles_in_use <= calls[Main].ret[1].active_vehicles

C30_Witness ==
    /\ Succeeded(Main, "getDashboardData")
    /\ calls[Main].ret[1].vehicles_in_use = 1
    /\ calls[Main].ret[1].active_vehicles = 1
    /\ \E v \in Range(vehicles) :
          /\ v.status = "maintenance"
          /\ \E a \in Range(assignments) : a.vehicle_id = v.id /\ a.status = "active"

====
